---- MODULE Spec2Model ----
(***************************************************************************)
(* Calci.py (src/app.py): grade lookup, SGPA / CGPA aggregation, country   *)
(* conversion, target planner and the history ledger of the Streamlit app. *)
(*                                                                         *)
(* Numbers are fixed point: every percent, grade point, SGPA and CGPA is   *)
(* an integer count of thousandths (Unit = 1000 stands for 1.0), so that   *)
(* the literals 89.99, 79.99, ... of the band table and the 3-decimal      *)
(* rounding of the averages are exact.                                     *)
(***************************************************************************)
EXTENDS Integers, Sequences, FiniteSets, TLC

VARIABLES
    op,         \* the operation the last step ran ("init" before any)
    percent,    \* argument of percent_to_grade_point
    grade,      \* its result <<label, grade point>>
    subjects,   \* semester form: the widget values of its subjects
    df,         \* argument of sgpa_from_df: the rows of a semester table
    sgpa,       \* its result, None when undefined
    sems_data,  \* CGPA tracker: the (sem, sgpa, credits) rows of the form
    cgpa,       \* CGPA tracker: the CGPA computed, None when none was
    cie,        \* planner: current CIE total (out of 50)
    target_gp,  \* planner: target grade point
    needed,     \* planner: SEE marks needed, None when the target is not valid
    cgpa_input, \* conversion: the CGPA passed to convert_cgpa_to_countries
    conv,       \* conversion: the mapping country -> payload it returned
    shown,      \* the st.success / st.error message of the last step
    session_state,          \* st.session_state: key -> value
    results_dir,            \* the files of results/: name -> content
    clock,                  \* the wall clock, in seconds
    REPORTLAB_AVAILABLE,    \* whether the reportlab import succeeded
    writers                 \* concurrent sessions inside a ledger append

vars == <<op, percent, grade, subjects, df, sgpa, sems_data, cgpa, cie,
          target_gp, needed, cgpa_input, conv, shown, session_state, results_dir,
          clock, REPORTLAB_AVAILABLE, writers>>

gradeVars == <<percent, grade>>

sgpaVars == <<subjects, df, sgpa>>

cgpaVars == <<sems_data, cgpa>>

planVars == <<cie, target_gp, needed>>

convVars == <<cgpa_input, conv>>

appVars == <<session_state, results_dir, clock, REPORTLAB_AVAILABLE, writers>>

----------------------------------------------------------------------------
(* Fixed point and the values pandas / numpy use for "missing".            *)

Unit == 10 * 10 * 10

\* 10 ^ n
RECURSIVE Pow10(_)
Pow10(n) == IF n = 0 THEN 1 ELSE 10 * Pow10(n - 1)

\* np.nan in a grade point cell: an integer that is no number of the model
NaN == 1 - Pow10(9)

\* Python's None: an integer that is no number of the model
None == 0 - Pow10(9)

GPA_DECIMALS == 3

MAX_SEM == 8

Abs(x) == IF x < 0 THEN 0 - x ELSE x

Max2(a, b) == IF a >= b THEN a ELSE b

Min2(a, b) == IF a <= b THEN a ELSE b

\* hundredths of a percent, as written in the band table (89.99 -> 8999)
Centi(h) == (h * Unit) \div 100

----------------------------------------------------------------------------
(* Grade scale                                                             *)

\* (mn, mx, lbl, gp) in the order of the source
PERCENT_TO_GRADE ==
    << <<Centi(9000), Centi(10000), "O",  10 * Unit>>,
       <<Centi(8000), Centi(8999),  "A+", 9 * Unit>>,
       <<Centi(7000), Centi(7999),  "A",  8 * Unit>>,
       <<Centi(6000), Centi(6999),  "B+", 7 * Unit>>,
       <<Centi(5000), Centi(5999),  "B",  6 * Unit>>,
       <<Centi(4500), Centi(4999),  "C",  5 * Unit>>,
       <<Centi(4000), Centi(4499),  "D",  4 * Unit>>,
       <<Centi(0),    Centi(3999),  "F",  0 * Unit>> >>

\* the for loop of percent_to_grade_point from band i on: first band that
\* contains p, ("", nan) when the loop runs out
RECURSIVE grade_scan(_, _)
grade_scan(p, i) ==
    IF i > Len(PERCENT_TO_GRADE) THEN <<"", NaN>>
    ELSE IF PERCENT_TO_GRADE[i][1] <= p /\ p <= PERCENT_TO_GRADE[i][2]
         THEN <<PERCENT_TO_GRADE[i][3], PERCENT_TO_GRADE[i][4]>>
         ELSE grade_scan(p, i + 1)

percent_to_grade_point_from_second(p) == grade_scan(p, 2)

percent_to_grade_point(p) == grade_scan(p, 1)

----------------------------------------------------------------------------
(* Rounding and sums                                                       *)

\* num / den (den > 0) rounded to the nearest integer.  round() works on
\* the binary float: a quotient that is a tie in decimal (x.5) is stored
\* just below or just above it, or exactly (and then goes to the even
\* neighbour), so a tie goes down or up; up says which.
RoundNearest(num, den, up) ==
    LET q == num \div den
        r == num % den
    IN  IF 2 * r < den THEN q
        ELSE IF 2 * r > den THEN q + 1
        ELSE IF up THEN q + 1 ELSE q

\* round(num / den, ndigits) for a value counted in thousandths
py_round(num, den, ndigits, up) ==
    LET step == Unit \div Pow10(ndigits)
    IN  RoundNearest(num, den * step, up) * step

\* pd.to_numeric(..., errors="coerce").fillna(0) on one credits cell
credits_to_numeric(c) == IF c = None THEN 0 ELSE c

\* pd.to_numeric(..., errors="coerce") on one grade point cell
grade_point_to_numeric(g) == IF g = None THEN NaN ELSE g

\* df2[df2["Grade_Point"].notna()]
used_rows(rows) ==
    SelectSeq(rows, LAMBDA r : grade_point_to_numeric(r.Grade_Point) # NaN)

\* used["Credits"].sum()
RECURSIVE credits_sum(_)
credits_sum(rows) ==
    IF rows = <<>> THEN 0
    ELSE credits_to_numeric(Head(rows).Credits) + credits_sum(Tail(rows))

\* (used["Grade_Point"] * used["Credits"]).sum()
RECURSIVE weighted_sum(_)
weighted_sum(rows) ==
    IF rows = <<>> THEN 0
    ELSE grade_point_to_numeric(Head(rows).Grade_Point)
             * credits_to_numeric(Head(rows).Credits)
         + weighted_sum(Tail(rows))

\* sgpa_from_df with the credits of every row in the denominator
sgpa_from_df_all_credits(rows, up) ==
    LET used == used_rows(rows)
        total_credits == credits_sum(rows)
    IN  IF total_credits = 0 THEN None
        ELSE py_round(weighted_sum(used), total_credits, GPA_DECIMALS, up)

\* sgpa_from_df with 0 as the value of a semester without credits
sgpa_from_df_zero(rows, up) ==
    LET used == used_rows(rows)
        total_credits == credits_sum(used)
    IN  IF total_credits = 0 THEN 0
        ELSE py_round(weighted_sum(used), total_credits, GPA_DECIMALS, up)

sgpa_from_df(rows, up) ==
    LET used == used_rows(rows)
        total_credits == credits_sum(used)
    IN  IF total_credits = 0 THEN None
        ELSE py_round(weighted_sum(used), total_credits, GPA_DECIMALS, up)

----------------------------------------------------------------------------
(* CGPA tracker ("Compute CGPA")                                           *)

\* df_sem[df_sem["sgpa"] > 0]
valid_sems(rows) == SelectSeq(rows, LAMBDA r : r.sgpa > 0)

\* df_valid["credits"].sum()
RECURSIVE sem_credits_sum(_)
sem_credits_sum(rows) ==
    IF rows = <<>> THEN 0 ELSE Head(rows).credits + sem_credits_sum(Tail(rows))

\* (df_valid["sgpa"] * df_valid["credits"]).sum()
RECURSIVE sem_weighted_sum(_)
sem_weighted_sum(rows) ==
    IF rows = <<>> THEN 0
    ELSE Head(rows).sgpa * Head(rows).credits + sem_weighted_sum(Tail(rows))

\* the same computation over every row, zero SGPAs included
compute_cgpa_unfiltered(rows, up) ==
    LET total_credits == sem_credits_sum(rows)
    IN  IF total_credits = 0 THEN None
        ELSE py_round(sem_weighted_sum(rows), total_credits, GPA_DECIMALS, up)

\* the body of the "Compute CGPA" button: None stands for the st.error branch
compute_cgpa(rows, up) ==
    LET df_valid == valid_sems(rows)
        total_credits == sem_credits_sum(df_valid)
    IN  IF total_credits = 0 THEN None
        ELSE py_round(sem_weighted_sum(df_valid), total_credits, GPA_DECIMALS, up)

----------------------------------------------------------------------------
(* Target & Planner                                                        *)

\* 1e-6 is one part in Epsilon of a thousandth
Epsilon == Pow10(6) \div Unit

\* the for loop over PERCENT_TO_GRADE from band i on: mn of the first band
\* with abs(gp - target_gp) < 1e-6, None when the loop runs out
RECURSIVE lower_scan(_, _)
lower_scan(target, i) ==
    IF i > Len(PERCENT_TO_GRADE) THEN None
    ELSE IF Abs(PERCENT_TO_GRADE[i][4] - target) * Epsilon < 1
         THEN PERCENT_TO_GRADE[i][1]
         ELSE lower_scan(target, i + 1)

\* the same loop taking mx, the upper end of the band
RECURSIVE upper_scan(_, _)
upper_scan(target, i) ==
    IF i > Len(PERCENT_TO_GRADE) THEN None
    ELSE IF Abs(PERCENT_TO_GRADE[i][4] - target) * Epsilon < 1
         THEN PERCENT_TO_GRADE[i][2]
         ELSE upper_scan(target, i + 1)

lower_for_upper(target) == upper_scan(target, 1)

lower_for(target) == lower_scan(target, 1)

\* needed = lower - cie without the floor at 0
needed_for_no_floor(lower, c) == Min2(50 * Unit, lower - c)

\* needed = lower - cie; needed = max(0.0, min(50.0, needed))
needed_for(lower, c) == Max2(0, Min2(50 * Unit, lower - c))

\* None stands for the st.error("Target not valid.") branch
plan_needed(c, target) ==
    IF lower_for(target) = None THEN None ELSE needed_for(lower_for(target), c)

----------------------------------------------------------------------------
(* Multi-country conversion                                                *)
(* Float payloads are counted in thousandths; the Australian, New Zealand  *)
(* and Swedish grades are Python ints and stay plain integers.             *)

TOP_COUNTRIES ==
    <<"United States", "Canada", "United Kingdom", "Germany", "Australia",
      "Netherlands", "Sweden", "France", "Singapore", "New Zealand">>

\* the empty dict
EmptyMap == [c \in {} |-> 0]

canada_gpa(pct) ==
    IF pct >= 90 * Unit THEN 4 * Unit
    ELSE IF pct >= 85 * Unit THEN (37 * Unit) \div 10
    ELSE IF pct >= 80 * Unit THEN (33 * Unit) \div 10
    ELSE IF pct >= 75 * Unit THEN 3 * Unit
    ELSE IF pct >= 70 * Unit THEN (27 * Unit) \div 10
    ELSE 2 * Unit

uk_classification(pct) ==
    IF pct >= 70 * Unit THEN "First"
    ELSE IF pct >= 60 * Unit THEN "2:1"
    ELSE IF pct >= 50 * Unit THEN "2:2"
    ELSE IF pct >= 40 * Unit THEN "Third"
    ELSE "Fail"

australia_gpa(pct) ==
    IF pct >= 85 * Unit THEN 7
    ELSE IF pct >= 75 * Unit THEN 6
    ELSE IF pct >= 65 * Unit THEN 5
    ELSE IF pct >= 50 * Unit THEN 4
    ELSE 2

\* the Swedish steps with exclusive thresholds
sweden_grade_exclusive(pct) ==
    IF pct > 90 * Unit THEN 5
    ELSE IF pct > 75 * Unit THEN 4
    ELSE IF pct > 60 * Unit THEN 3
    ELSE IF pct > 50 * Unit THEN 2
    ELSE 1

sweden_grade(pct) ==
    IF pct >= 90 * Unit THEN 5
    ELSE IF pct >= 75 * Unit THEN 4
    ELSE IF pct >= 60 * Unit THEN 3
    ELSE IF pct >= 50 * Unit THEN 2
    ELSE 1

\* the dict built for a numeric cg, key by key in the order of the source
country_payloads(cg, up) ==
    LET pct == cg * 10
        aus == australia_gpa(pct)
    IN  ("United States" :> [scale |-> "4.0", gpa |-> py_round(cg * 4, 10, 2, up)])
        @@ ("Canada" :> [scale |-> "4.0", gpa |-> canada_gpa(pct)])
        @@ ("United Kingdom" :> [classification |-> uk_classification(pct)])
        @@ ("Germany" :>
               [grade |-> py_round(100 * Unit + 3 * (100 * Unit - pct), 100, 2, up)])
        @@ ("Australia" :> [scale |-> "7", gpa |-> aus])
        @@ ("Netherlands" :> [scale |-> "10", score |-> py_round(pct, 10, 2, up)])
        @@ ("Sweden" :> [grade |-> sweden_grade(pct)])
        @@ ("France" :> [percent |-> pct])
        @@ ("Singapore" :> [scale |-> "4.0", gpa |-> py_round(cg * 4, 10, 2, up)])
        @@ ("New Zealand" :> [scale |-> "7", gpa |-> aus])

\* the conversion with the last key left out
convert_without_last(cgpa10, up) ==
    IF cgpa10 = None THEN EmptyMap
    ELSE [c \in DOMAIN country_payloads(cgpa10, up) \ {"New Zealand"} |->
             country_payloads(cgpa10, up)[c]]

convert_cgpa_to_countries(cgpa10, up) ==
    IF cgpa10 = None THEN EmptyMap ELSE country_payloads(cgpa10, up)

----------------------------------------------------------------------------
(* The Streamlit application: one action is one run of the script with one *)
(* button pressed.  results_dir maps each file name of results/ to its     *)
(* content [text, records]: text is "json" for a file json.loads accepts   *)
(* as a list (records holds the list), and the kind of the file otherwise. *)
(* "Download", "Export All History to Excel" and "Save CGPA Summary" read  *)
(* the ledger or add a file to results/ and are left out.                  *)

HISTORY_FILE == "history.json"

AUTO_ADMIN_USER == "Myakala.Vignesh"

\* a dict with key k set to v
Put(d, k, v) == (k :> v) @@ d

\* dict.get(k, default)
Get(d, k, default) == IF k \in DOMAIN d THEN d[k] ELSE default

\* a dict without the keys of K
Without(d, K) == [k \in DOMAIN d \ K |-> d[k]]

JsonFile(history) == [text |-> "json", records |-> history]

OtherFile(kind) == [text |-> kind, records |-> <<>>]

\* now_ts(): the clock as a string
now_ts == ToString(clock)

\* json null in a field that otherwise holds a string
Null == "null"

\* the top of the script, run on every rerun: creates history.json as "[]"
\* when it does not exist
script_top(dir) ==
    IF HISTORY_FILE \in DOMAIN dir THEN dir ELSE Put(dir, HISTORY_FILE, JsonFile(<<>>))

\* try json.loads(read_text) except: return []
load_history(dir) ==
    IF HISTORY_FILE \in DOMAIN dir /\ dir[HISTORY_FILE].text = "json"
    THEN dir[HISTORY_FILE].records
    ELSE <<>>

save_history_new_only(dir, history) ==
    Put(dir, HISTORY_FILE,
        JsonFile(IF history = <<>> THEN <<>> ELSE <<history[Len(history)]>>))

save_history_merging(dir, history) ==
    Put(dir, HISTORY_FILE,
        JsonFile(IF history = <<>> THEN <<>>
                 ELSE Append(IF HISTORY_FILE \in DOMAIN dir
                             THEN dir[HISTORY_FILE].records ELSE <<>>,
                             history[Len(history)])))

save_history(dir, history) == Put(dir, HISTORY_FILE, JsonFile(history))

\* one row of sem_df from the widget values of one subject
semester_row(s, up) ==
    LET m1 == s.Mid1_out_of_40 * Unit
        m2 == s.Mid2_out_of_40 * Unit
        avg_mid == (m1 + m2) \div 2
        pres == s.Presentation_out_of_10 * Unit
        cie0 == avg_mid + pres
        cie1 == IF cie0 > 50 * Unit THEN 50 * Unit ELSE cie0
        see == s.SEE_out_of_50 * Unit
        total0 == cie1 + see
        total == IF total0 > 100 * Unit THEN 100 * Unit ELSE total0
        g == percent_to_grade_point(total)
    IN  [Subject |-> s.Subject,
         Credits |-> s.Credits,
         Mid1_out_of_40 |-> m1,
         Mid2_out_of_40 |-> m2,
         Avg_mid_out_of_40 |-> py_round(avg_mid, 1, 2, up),
         Presentation_out_of_10 |-> pres,
         CIE_out_of_50 |-> py_round(cie1, 1, 2, up),
         SEE_out_of_50 |-> py_round(see, 1, 2, up),
         Total_out_of_100 |-> py_round(total, 1, 2, up),
         Grade |-> g[1],
         Grade_Point |-> g[2]]

semester_rows(form, up) ==
    [i \in DOMAIN form |-> semester_row(form[i], up)]

\* "<student>_Sem<sem>_<ts>.<ext>"
semester_file(student, sem, ext) ==
    student \o "_Sem" \o ToString(sem) \o "_" \o now_ts \o ext

semester_entry(ss, sem, value, csv, pdf) ==
    [timestamp |-> now_ts,
     student |-> Get(ss, "student_name", Null),
     hallticket |-> Get(ss, "hallticket", Null),
     program |-> Get(ss, "program", Null),
     semester |-> "Sem" \o ToString(sem),
     sgpa |-> value,
     csv |-> csv,
     pdf |-> pdf,
     rating |-> None]

\* the study steps of one difficulty, named by their first step
plan_steps(diff) ==
    IF diff = "Easy" THEN "Revise lecture notes"
    ELSE IF diff = "Moderate" THEN "Detailed notes"
    ELSE "Deep dive"

\* plans_text: subject -> {difficulty, steps}
plans_text(plan_rows) ==
    [sub \in {plan_rows[i].subject : i \in DOMAIN plan_rows} |->
        LET i == CHOOSE j \in DOMAIN plan_rows :
                     /\ plan_rows[j].subject = sub
                     /\ \A k \in DOMAIN plan_rows :
                            plan_rows[k].subject = sub => k <= j
        IN  [difficulty |-> plan_rows[i].difficulty,
             steps |-> plan_steps(plan_rows[i].difficulty)]]

planner_entry(ss, target, need, plan_rows, rating) ==
    [timestamp |-> now_ts,
     student |-> Get(ss, "student_name", Null),
     hallticket |-> Get(ss, "hallticket", Null),
     program |-> Get(ss, "program", Null),
     action |-> "planner",
     target_gp |-> target,
     needed_in_see |-> need,
     plan_items |-> plans_text(plan_rows),
     rating |-> rating]

rating_entry(ss, rating, feedback) ==
    [timestamp |-> now_ts,
     student |-> Get(ss, "student_name", ""),
     hallticket |-> Get(ss, "hallticket", ""),
     program |-> Get(ss, "program", ""),
     action |-> "app_rating",
     rating |-> rating,
     feedback |-> feedback]

app_started == Get(session_state, "app_started", FALSE)

admin_authenticated == Get(session_state, "admin_authenticated", FALSE)

----------------------------------------------------------------------------
(* SpecGrade: percent_to_grade_point applied to one percent of [0,100],    *)
(* in steps of 0.001.                                                      *)

MaxPercent == 100 * Unit

PercentInputs == 0 .. MaxPercent

IdleGrade == percent = 0 /\ grade = <<"", NaN>>

IdleSgpa == subjects = <<>> /\ df = <<>> /\ sgpa = None

\* the tracker form before any semester is saved or typed: (0.0, 0) each
DefaultSems == [i \in 1 .. MAX_SEM |-> [sem |-> i, sgpa |-> 0, credits |-> 0]]

IdleCgpa == sems_data = DefaultSems /\ cgpa = None

\* the planner form as first rendered: CIE 20.0, target 10.0
IdlePlan == cie = 20 * Unit /\ target_gp = 10 * Unit /\ needed = None

\* the conversion form as first rendered: CGPA 8.0
IdleConv == cgpa_input = 8 * Unit /\ conv = EmptyMap

\* a run of the script that does not enter the semester page leaves its
\* locals unset; one that does not enter the planner page likewise
NoSemesterRun == subjects' = <<>> /\ df' = <<>> /\ sgpa' = None

NoPlanRun == cie' = 20 * Unit /\ target_gp' = 10 * Unit /\ needed' = None

\* likewise for the CGPA tracker page and the conversion page
NoCgpaRun == sems_data' = DefaultSems /\ cgpa' = None

NoConvRun == cgpa_input' = 8 * Unit /\ conv' = EmptyMap

\* the application not running: no session, results/ not yet created
IdleApp ==
    /\ session_state = EmptyMap
    /\ results_dir = EmptyMap
    /\ clock = 0
    /\ REPORTLAB_AVAILABLE = FALSE
    /\ writers = EmptyMap

InitGrade ==
    /\ op = "init"
    /\ percent \in PercentInputs
    /\ grade = <<"", NaN>>
    /\ shown = ""
    /\ IdleSgpa
    /\ IdleCgpa
    /\ IdlePlan
    /\ IdleConv
    /\ IdleApp

LookupGrade ==
    /\ op = "init"
    /\ op' = "percent_to_grade_point"
    /\ grade' = percent_to_grade_point(percent)
    /\ UNCHANGED <<percent, shown, sgpaVars, cgpaVars, planVars, convVars, appVars>>

NextGrade == LookupGrade

SpecGrade == InitGrade /\ [][NextGrade]_vars

----------------------------------------------------------------------------
(* The band table as the specification states it: [90,100] -> O/10,        *)
(* [80,90) -> A+/9, [70,80) -> A/8, [60,70) -> B+/7, [50,60) -> B/6,       *)
(* [45,50) -> C/5, [40,45) -> D/4, [0,40) -> F/0.                          *)

\* <<lower bound (inclusive), upper bound, label, points>>
HalfOpenBands ==
    << <<90 * Unit, 100 * Unit, "O",  10 * Unit>>,
       <<80 * Unit, 90 * Unit,  "A+", 9 * Unit>>,
       <<70 * Unit, 80 * Unit,  "A",  8 * Unit>>,
       <<60 * Unit, 70 * Unit,  "B+", 7 * Unit>>,
       <<50 * Unit, 60 * Unit,  "B",  6 * Unit>>,
       <<45 * Unit, 50 * Unit,  "C",  5 * Unit>>,
       <<40 * Unit, 45 * Unit,  "D",  4 * Unit>>,
       <<0,         40 * Unit,  "F",  0>> >>

\* the band of p: upper bounds exclusive, but for 100 in the top band
HalfOpenBand(p) ==
    LET i == CHOOSE j \in 1 .. Len(HalfOpenBands) :
                 /\ HalfOpenBands[j][1] <= p
                 /\ p < HalfOpenBands[j][2] \/ (j = 1 /\ p = HalfOpenBands[j][2])
    IN  <<HalfOpenBands[i][3], HalfOpenBands[i][4]>>

\* the bands of the source that contain p
MatchingBands(p) ==
    {i \in 1 .. Len(PERCENT_TO_GRADE) :
        PERCENT_TO_GRADE[i][1] <= p /\ p <= PERCENT_TO_GRADE[i][2]}

\* C1: every percent of [0,100] lies in exactly one band of the table and
\* the lookup returns that band: lower bounds inclusive (90 -> O/10), a
\* value just below a threshold in the band below (89.999 -> A+/9).
C1_GradeBandsPartition ==
    op = "percent_to_grade_point" =>
        /\ Cardinality(MatchingBands(percent)) = 1
        /\ grade = HalfOpenBand(percent)

----------------------------------------------------------------------------
(* SpecSgpa: sgpa_from_df applied to a table of up to MaxSubjects rows.    *)
(* A credits cell is a number of 0 .. MaxCredits or missing, a grade point *)
(* cell is the grade point of O, A+, B+ or F, or missing.                  *)

MaxSubjects == 3

MaxCredits == 2

CreditInputs == (0 .. MaxCredits) \cup {None}

GradePointInputs == {PERCENT_TO_GRADE[i][4] : i \in {1, 2, 4, 8}} \cup {NaN}

RowInputs == [Credits : CreditInputs, Grade_Point : GradePointInputs]

TableInputs == UNION {[1 .. n -> RowInputs] : n \in 0 .. MaxSubjects}

InitSgpa ==
    /\ op = "init"
    /\ subjects = <<>>
    /\ df \in TableInputs
    /\ sgpa = None
    /\ shown = ""
    /\ IdleGrade
    /\ IdleCgpa
    /\ IdlePlan
    /\ IdleConv
    /\ IdleApp

ComputeSgpa ==
    /\ op = "init"
    /\ op' = "sgpa_from_df"
    /\ \E up \in BOOLEAN : sgpa' = sgpa_from_df(df, up)
    /\ UNCHANGED <<subjects, df, shown, gradeVars, cgpaVars, planVars, convVars, appVars>>

NextSgpa == ComputeSgpa

SpecSgpa == InitSgpa /\ [][NextSgpa]_vars

\* the rows of df that have a grade point
GradedRows == {i \in DOMAIN df : df[i].Grade_Point \notin {NaN, None}}

CreditsOf(i) == IF df[i].Credits = None THEN 0 ELSE df[i].Credits

RECURSIVE SumOver(_, _)
SumOver(f, S) ==
    IF S = {} THEN 0
    ELSE LET i == CHOOSE j \in S : TRUE IN f[i] + SumOver(f, S \ {i})

GradedCredits == SumOver([i \in DOMAIN df |-> CreditsOf(i)], GradedRows)

GradedPoints ==
    SumOver([i \in GradedRows |-> df[i].Grade_Point * CreditsOf(i)], GradedRows)

\* C2: sgpa_from_df returns sum(points_i * credits_i) / sum(credits_i) over
\* the rows with a grade point, rounded to 3 decimals (the result is within
\* half a thousandth of the exact quotient), when that credit sum is
\* greater than 0, and None - never the number 0 - when it is 0.
C2_SgpaWeightedMean ==
    op = "sgpa_from_df" =>
        IF GradedCredits = 0
        THEN sgpa = None
        ELSE /\ sgpa # None
             /\ 2 * Abs(sgpa * GradedCredits - GradedPoints) <= GradedCredits

\* a table with an ungraded row that carries credits, whose mean is not a
\* whole number of grade points
C2_Witness ==
    /\ op = "sgpa_from_df"
    /\ sgpa # None
    /\ sgpa % Unit # 0
    /\ \E i \in DOMAIN df : df[i].Grade_Point = NaN /\ CreditsOf(i) > 0

----------------------------------------------------------------------------
(* SpecCgpa: "Compute CGPA" on a tracker form whose first MaxEntered       *)
(* semesters are filled in and whose other semesters keep (0.0, 0).        *)

MaxEntered == 3

TrackSgpaInputs == {0, (29 * Unit) \div 4, 8 * Unit, 9 * Unit}

TrackCreditInputs == {0, 20, 24}

\* one (sgpa, credits) choice for each of the first MaxEntered semesters
EnteredInputs ==
    [1 .. Min2(MaxEntered, MAX_SEM) -> TrackSgpaInputs \X TrackCreditInputs]

SemsOf(e) ==
    [i \in 1 .. MAX_SEM |->
        IF i \in DOMAIN e
        THEN [sem |-> i, sgpa |-> e[i][1], credits |-> e[i][2]]
        ELSE DefaultSems[i]]

SemsInputs == {SemsOf(e) : e \in EnteredInputs}

InitCgpa ==
    /\ op = "init"
    /\ sems_data \in SemsInputs
    /\ cgpa = None
    /\ shown = ""
    /\ IdleGrade
    /\ IdleSgpa
    /\ IdlePlan
    /\ IdleConv
    /\ IdleApp

ComputeCgpa ==
    /\ op = "init"
    /\ op' = "compute_cgpa"
    /\ \E up \in BOOLEAN : cgpa' = compute_cgpa(sems_data, up)
    /\ shown' = IF cgpa' = None THEN "error: no credits" ELSE "success: cgpa"
    /\ UNCHANGED <<sems_data, gradeVars, sgpaVars, planVars, convVars, appVars>>

NextCgpa == ComputeCgpa

SpecCgpa == InitCgpa /\ [][NextCgpa]_vars

\* the semesters that count: those with an SGPA above 0
CountedSems == {i \in DOMAIN sems_data : ~ (sems_data[i].sgpa <= 0)}

CountedCredits ==
    SumOver([i \in DOMAIN sems_data |-> sems_data[i].credits], CountedSems)

CountedPoints ==
    SumOver([i \in DOMAIN sems_data |-> sems_data[i].sgpa * sems_data[i].credits],
            CountedSems)

\* the form [(8.0,20),(0,0),(9.0,24)], the other semesters untouched
ExampleSems ==
    [i \in 1 .. MAX_SEM |->
        [sem |-> i,
         sgpa |-> IF i = 1 THEN 8 * Unit ELSE IF i = 3 THEN 9 * Unit ELSE 0,
         credits |-> IF i = 1 THEN 20 ELSE IF i = 3 THEN 24 ELSE 0]]

\* C4: the CGPA is sum(sgpa_i * credits_i) / sum(credits_i) over the pairs
\* with sgpa > 0 only, rounded to 3 decimals; [(8.0,20),(0,0),(9.0,24)]
\* gives 8.545; when the remaining credits are 0 no CGPA is produced and
\* the error is shown.
C4_CgpaDropsZeroSgpa ==
    op = "compute_cgpa" =>
        /\ IF CountedCredits = 0
           THEN cgpa = None /\ shown = "error: no credits"
           ELSE /\ cgpa # None
                /\ shown = "success: cgpa"
                /\ 2 * Abs(cgpa * CountedCredits - CountedPoints) <= CountedCredits
        /\ sems_data = ExampleSems => cgpa = 8545

\* a form with a zero-SGPA semester that carries credits, next to counted
\* semesters whose mean needs rounding
C4_Witness ==
    /\ op = "compute_cgpa"
    /\ cgpa # None
    /\ cgpa % Unit # 0
    /\ \E i \in DOMAIN sems_data : sems_data[i].sgpa = 0 /\ sems_data[i].credits > 0

----------------------------------------------------------------------------
(* SpecPlanner: the planner's required-SEE computation for a CIE of        *)
(* [0,50] in steps of 0.005 and a target of the selectbox.                 *)

CieStep == 5

CieInputs == {c \in 0 .. 50 * Unit : c % CieStep = 0}

\* the options of the "Target grade point" selectbox
TargetChoices == {g * Unit : g \in {10, 9, 8, 7, 6, 5, 4}}

InitPlanner ==
    /\ op = "init"
    /\ cie \in CieInputs
    /\ target_gp \in TargetChoices
    /\ needed = None
    /\ shown = ""
    /\ IdleGrade
    /\ IdleSgpa
    /\ IdleCgpa
    /\ IdleConv
    /\ IdleApp

ComputeNeeded ==
    /\ op = "init"
    /\ op' = "planner"
    /\ needed' = plan_needed(cie, target_gp)
    /\ shown' = IF needed' = None THEN "error: target not valid" ELSE ""
    /\ UNCHANGED <<cie, target_gp, gradeVars, sgpaVars, cgpaVars, convVars, appVars>>

NextPlanner == ComputeNeeded

SpecPlanner == InitPlanner /\ [][NextPlanner]_vars

\* lowerBound(g): the least percent of the band whose points equal g
LowerBound(g) ==
    LET i == CHOOSE j \in 1 .. Len(HalfOpenBands) : HalfOpenBands[j][4] = g
    IN  HalfOpenBands[i][1]

Clamp(x, lo, hi) == IF x < lo THEN lo ELSE IF x > hi THEN hi ELSE x

ForeignPoints ==
    {(h * Unit) \div 2 : h \in 0 .. 20}
        \ {PERCENT_TO_GRADE[i][4] : i \in 1 .. Len(PERCENT_TO_GRADE)}

\* C6: the planner's result is clamp(lowerBound(g) - c, 0, 50) for every
\* c of [0,50] and every target of the band table (c = 20, g = 8.0 gives
\* 50; c = 45, g = 5.0 gives 0); a grade point that matches no band has no
\* lower bound and yields the error, no result.
C6_NeededIsClamp ==
    op = "planner" =>
        /\ needed = Clamp(LowerBound(target_gp) - cie, 0, 50 * Unit)
        /\ shown # "error: target not valid"
        /\ cie = 20 * Unit /\ target_gp = 8 * Unit => needed = 50 * Unit
        /\ cie = 45 * Unit /\ target_gp = 5 * Unit => needed = 0
        /\ \A g \in ForeignPoints :
               lower_for(g) = None /\ plan_needed(cie, g) = None

\* a result strictly inside (0,50): neither end of the clamp
C6_Witness ==
    /\ op = "planner"
    /\ needed > 0
    /\ needed < 50 * Unit
    /\ needed = LowerBound(target_gp) - cie

----------------------------------------------------------------------------
(* SpecConvert: convert_cgpa_to_countries applied to None or to a number   *)
(* of [-1, 11] in steps of 0.001; the valid inputs are those of [0,10].    *)

ConvertInputs == ((0 - Unit) .. 11 * Unit) \cup {None}

ValidCgpa(c) == c # None /\ 0 <= c /\ c <= 10 * Unit

InitConvert ==
    /\ op = "init"
    /\ cgpa_input \in ConvertInputs
    /\ conv = EmptyMap
    /\ shown = ""
    /\ IdleGrade
    /\ IdleSgpa
    /\ IdleCgpa
    /\ IdlePlan
    /\ IdleApp

Convert ==
    /\ op = "init"
    /\ op' = "convert"
    /\ \E up \in BOOLEAN : conv' = convert_cgpa_to_countries(cgpa_input, up)
    /\ UNCHANGED <<cgpa_input, shown, gradeVars, sgpaVars, cgpaVars, planVars, appVars>>

NextConvert == Convert

SpecConvert == InitConvert /\ [][NextConvert]_vars

\* C7: for every cgpa of [0,10] the mapping returned has exactly the ten
\* supported countries as its keys, one payload each.
C7_AllCountriesPresent ==
    (op = "convert" /\ ValidCgpa(cgpa_input)) =>
        /\ DOMAIN conv = {TOP_COUNTRIES[i] : i \in 1 .. Len(TOP_COUNTRIES)}
        /\ Cardinality(DOMAIN conv) = 10

\* a conversion of a valid CGPA other than the form's default
C7_Witness ==
    /\ op = "convert"
    /\ ValidCgpa(cgpa_input)
    /\ cgpa_input # 8 * Unit
    /\ "New Zealand" \in DOMAIN conv

\* C8: a cgpa below 0 or above 10 is rejected: no conversion payloads are
\* returned for it, neither clamped nor out-of-scale ones.
C8_OutOfRangeRejected ==
    (op = "convert" /\ ~ ValidCgpa(cgpa_input)) => DOMAIN conv = {}

\* thresholds (percent) and values of the stepped conversions, highest first
CanadaSteps ==
    << <<90, 4 * Unit>>, <<85, (37 * Unit) \div 10>>, <<80, (33 * Unit) \div 10>>,
       <<75, 3 * Unit>>, <<70, (27 * Unit) \div 10>> >>

UKSteps == << <<70, "First">>, <<60, "2:1">>, <<50, "2:2">>, <<40, "Third">> >>

AustraliaSteps == << <<85, 7>>, <<75, 6>>, <<65, 5>>, <<50, 4>> >>

SwedenSteps == << <<90, 5>>, <<75, 4>>, <<60, 3>>, <<50, 2>> >>

\* the value of the first step whose threshold pct reaches, else otherwise
StepValue(steps, else, pct) ==
    LET reached == {i \in 1 .. Len(steps) : pct >= steps[i][1] * Unit}
    IN  IF reached = {} THEN else
        ELSE steps[CHOOSE i \in reached : \A j \in reached : i <= j][2]

UKRank(c) ==
    CASE c = "Fail" -> 0 [] c = "Third" -> 1 [] c = "2:2" -> 2
      [] c = "2:1" -> 3 [] c = "First" -> 4

\* the conversion of the next lower input
ConvBelow == convert_cgpa_to_countries(cgpa_input - 1, TRUE)

\* C9: for every cgpa of [0,10], percent = cgpa * 10, Canada, United
\* Kingdom, Australia / New Zealand and Sweden follow their thresholds with
\* inclusive lower bounds, each is monotone non-decreasing in cgpa (it is
\* no lower than at the next lower input), convert(10.0) gives UK First and
\* convert(0.0) gives UK Fail and Sweden 1.
C9_SteppedConversions ==
    (op = "convert" /\ ValidCgpa(cgpa_input)) =>
        LET pct == cgpa_input * 10 IN
        /\ conv["Canada"].gpa = StepValue(CanadaSteps, 2 * Unit, pct)
        /\ conv["United Kingdom"].classification = StepValue(UKSteps, "Fail", pct)
        /\ conv["Australia"].gpa = StepValue(AustraliaSteps, 2, pct)
        /\ conv["New Zealand"].gpa = conv["Australia"].gpa
        /\ conv["Sweden"].grade = StepValue(SwedenSteps, 1, pct)
        /\ cgpa_input > 0 =>
               /\ ConvBelow["Canada"].gpa <= conv["Canada"].gpa
               /\ UKRank(ConvBelow["United Kingdom"].classification)
                      <= UKRank(conv["United Kingdom"].classification)
               /\ ConvBelow["Australia"].gpa <= conv["Australia"].gpa
               /\ ConvBelow["New Zealand"].gpa <= conv["New Zealand"].gpa
               /\ ConvBelow["Sweden"].grade <= conv["Sweden"].grade
        /\ cgpa_input = 10 * Unit => conv["United Kingdom"].classification = "First"
        /\ cgpa_input = 0 =>
               /\ conv["United Kingdom"].classification = "Fail"
               /\ conv["Sweden"].grade = 1

\* a CGPA exactly on a threshold: 9.0 is 90 percent
C9_Witness ==
    /\ op = "convert"
    /\ cgpa_input = 9 * Unit
    /\ conv["Sweden"].grade = 5
    /\ conv["Canada"].gpa = 4 * Unit

----------------------------------------------------------------------------
(* Spec: one browser session of the application.  The ledger holds at most *)
(* MaxHistory entries and the clock stops at MaxClock.                     *)

MaxHistory == 2

MaxClock == 1

NameInputs == {"", "Asha"}

HallticketInputs == {"25EU08R0111"}

ProgramInputs == {"B.Tech"}

SemInputs == {1}

\* the widgets of subject i: the defaults (3 credits, 20, 20, 5, 25) or the
\* defaults with 0 credits
SubjectInputs(i) ==
    LET name == "Subject_" \o ToString(i) IN
    { [Subject |-> name, Credits |-> 3, Mid1_out_of_40 |-> 20,
       Mid2_out_of_40 |-> 20, Presentation_out_of_10 |-> 5, SEE_out_of_50 |-> 25],
      [Subject |-> name, Credits |-> 0, Mid1_out_of_40 |-> 20,
       Mid2_out_of_40 |-> 20, Presentation_out_of_10 |-> 5, SEE_out_of_50 |-> 25] }

NumSubjectsInputs == {1}

FormInputs ==
    UNION {{f \in [1 .. n -> UNION {SubjectInputs(i) : i \in 1 .. n}] :
               \A i \in 1 .. n : f[i] \in SubjectInputs(i)} : n \in NumSubjectsInputs}

\* (CIE, target grade point) pairs of the planner form
PlanInputs == {<<45 * Unit, 5 * Unit>>}

PlanRowsInputs == {<<[subject |-> "Subject_1", difficulty |-> "Easy"]>>}

RatingInputs == {5}

FeedbackInputs == {""}

\* the files whose "Delete" button the user presses: the ledger and the CSV
\* tables (the PDF reports stay until "Reset History")
DeleteInputs(dir) == {f \in DOMAIN dir : dir[f].text # "pdf"}

\* the CGPA typed in the conversion page: its default
ConvertPageInputs == {8 * Unit}

\* what a killed write_text leaves in history.json: the old text, nothing,
\* the beginning of the new text, or the new text
WrittenInputs == {"old", "", "partial", "new"}

Init ==
    /\ op = "init"
    /\ shown = ""
    /\ session_state = EmptyMap
    /\ results_dir = script_top(EmptyMap)
    /\ clock = 0
    /\ REPORTLAB_AVAILABLE \in BOOLEAN
    /\ writers = EmptyMap
    /\ IdleGrade
    /\ IdleSgpa
    /\ IdleCgpa
    /\ IdlePlan
    /\ IdleConv

\* the "Start" button of the sidebar
Start(name, ht, prog) ==
    /\ ~ app_started
    /\ op' = "start"
    /\ IF name = "" \/ ht = ""
       THEN /\ shown' = "error: enter student name and hallticket"
            /\ UNCHANGED session_state
       ELSE /\ shown' = ""
            /\ session_state' =
                   Put(Put(Put(Put(Put(session_state,
                       "student_name", name),
                       "hallticket", ht),
                       "program", prog),
                       "app_started", TRUE),
                       "semesters", Get(session_state, "semesters", EmptyMap))
    /\ results_dir' = script_top(results_dir)
    /\ NoSemesterRun
    /\ NoPlanRun
    /\ NoCgpaRun
    /\ NoConvRun
    /\ UNCHANGED <<clock, REPORTLAB_AVAILABLE, writers, gradeVars>>

\* the "Compute Semester SGPA & Save" button
ComputeSemester(sem, form, up) ==
    /\ app_started
    /\ Len(load_history(results_dir)) < MaxHistory
    /\ op' = "compute_semester"
    /\ subjects' = form
    /\ df' = semester_rows(form, up)
    /\ sgpa' = sgpa_from_df(df', up)
    /\ IF sgpa' = None
       THEN /\ shown' = "error: could not compute SGPA"
            /\ results_dir' = script_top(results_dir)
            /\ UNCHANGED session_state
       ELSE LET student == Get(session_state, "student_name", Null)
                csv == semester_file(student, sem, ".csv")
                pdf == semester_file(student, sem, ".pdf")
                saved == [df |-> df', sgpa |-> sgpa', credits |-> credits_sum(df')]
                dir1 == Put(script_top(results_dir), csv, OtherFile("csv"))
                dir2 == IF REPORTLAB_AVAILABLE
                        THEN Put(dir1, pdf, OtherFile("pdf")) ELSE dir1
                entry == semester_entry(session_state, sem, sgpa',
                             "results/" \o csv,
                             IF REPORTLAB_AVAILABLE THEN "results/" \o pdf ELSE Null)
            IN  /\ shown' = "success: semester SGPA"
                /\ session_state' =
                       Put(session_state, "semesters",
                           Put(session_state["semesters"], ToString(sem), saved))
                /\ results_dir' =
                       save_history(dir2, Append(load_history(dir2), entry))
    /\ NoPlanRun
    /\ NoCgpaRun
    /\ NoConvRun
    /\ UNCHANGED <<clock, REPORTLAB_AVAILABLE, writers, gradeVars>>

\* the "Create Plan & Save Rating" button; the slider it reveals holds 4
CreatePlan(c, target, plan_rows) ==
    /\ app_started
    /\ Len(load_history(results_dir)) < MaxHistory
    /\ op' = "create_plan"
    /\ cie' = c
    /\ target_gp' = target
    /\ needed' = plan_needed(c, target)
    /\ IF needed' = None
       THEN /\ shown' = "error: target not valid"
            /\ results_dir' = script_top(results_dir)
       ELSE LET dir0 == script_top(results_dir)
                entry == planner_entry(session_state, target, needed', plan_rows, 4)
            IN  /\ shown' = "success: plan saved"
                /\ results_dir' = save_history(dir0, Append(load_history(dir0), entry))
    /\ NoSemesterRun
    /\ NoCgpaRun
    /\ NoConvRun
    /\ UNCHANGED <<session_state, clock, REPORTLAB_AVAILABLE, writers, gradeVars>>

\* the "Submit Rating" button at the foot of every page
SubmitRating(rating, feedback) ==
    /\ app_started
    /\ Len(load_history(results_dir)) < MaxHistory
    /\ op' = "submit_rating"
    /\ shown' = "success: rating saved"
    /\ LET dir0 == script_top(results_dir)
           entry == rating_entry(session_state, rating, feedback)
       IN  results_dir' = save_history(dir0, Append(load_history(dir0), entry))
    /\ NoSemesterRun
    /\ NoPlanRun
    /\ NoCgpaRun
    /\ NoConvRun
    /\ UNCHANGED <<session_state, clock, REPORTLAB_AVAILABLE, writers, gradeVars>>

\* a "Delete" button of "View Saved Results": results/ is listed with
\* glob("*"), history.json included; unlink, then rerun the script
DeleteFile(f, ok) ==
    /\ app_started
    /\ f \in DOMAIN results_dir
    /\ op' = "delete_file"
    /\ IF ok
       THEN /\ shown' = "success: deleted"
            /\ results_dir' = script_top(Without(script_top(results_dir), {f}))
       ELSE /\ shown' = "error: delete failed"
            /\ results_dir' = script_top(results_dir)
    /\ NoSemesterRun
    /\ NoPlanRun
    /\ NoCgpaRun
    /\ NoConvRun
    /\ UNCHANGED <<session_state, clock, REPORTLAB_AVAILABLE, writers, gradeVars>>

\* the Admin page before login: the credentials are pre-filled
AdminLogin(username) ==
    /\ app_started
    /\ ~ admin_authenticated
    /\ op' = "admin_login"
    /\ IF username = AUTO_ADMIN_USER
       THEN /\ shown' = "success: admin logged in"
            /\ session_state' =
                   Put(Put(session_state, "admin_authenticated", TRUE),
                       "admin_user", AUTO_ADMIN_USER)
       ELSE /\ shown' = ""
            /\ UNCHANGED session_state
    /\ results_dir' = script_top(results_dir)
    /\ NoSemesterRun
    /\ NoPlanRun
    /\ NoCgpaRun
    /\ NoConvRun
    /\ UNCHANGED <<clock, REPORTLAB_AVAILABLE, writers, gradeVars>>

\* the "Reset History (delete files & records)" button: every file of
\* results/ is unlinked, the ledger rewritten as "[]", the script rerun
ResetHistory ==
    /\ app_started
    /\ admin_authenticated
    /\ load_history(results_dir) # <<>>
    /\ op' = "reset_history"
    /\ shown' = "success: history reset"
    /\ results_dir' = script_top(save_history(EmptyMap, <<>>))
    /\ NoSemesterRun
    /\ NoPlanRun
    /\ NoCgpaRun
    /\ NoConvRun
    /\ UNCHANGED <<session_state, clock, REPORTLAB_AVAILABLE, writers, gradeVars>>

\* the widgets of the CGPA tracker as first rendered: the SGPA and credits
\* of each saved semester, (0.0, 0) for the others
tracker_defaults(ss) ==
    LET saved_semesters == Get(ss, "semesters", EmptyMap) IN
    [i \in 1 .. MAX_SEM |->
        IF ToString(i) \in DOMAIN saved_semesters
        THEN [sem |-> i, sgpa |-> saved_semesters[ToString(i)].sgpa,
              credits |-> saved_semesters[ToString(i)].credits]
        ELSE DefaultSems[i]]

\* what the user may type over the defaults: 8.0 with 20 credits for Sem 1
TrackerInputs(ss) == {tracker_defaults(ss), SemsOf(<<<<8 * Unit, 20>>>>)}

\* the "Compute CGPA" button of the tracker page: the CGPA is shown, nothing
\* is written
TrackCgpa(sems, up) ==
    /\ app_started
    /\ op' = "track_cgpa"
    /\ sems_data' = sems
    /\ cgpa' = compute_cgpa(sems, up)
    /\ shown' = IF cgpa' = None THEN "error: no credits" ELSE "success: cgpa"
    /\ results_dir' = script_top(results_dir)
    /\ NoSemesterRun
    /\ NoPlanRun
    /\ NoConvRun
    /\ UNCHANGED <<session_state, clock, REPORTLAB_AVAILABLE, writers, gradeVars>>

\* the "Convert" button of the conversion page: the payload of the selected
\* country is shown, nothing is written
ConvertCountry(c, up) ==
    /\ app_started
    /\ op' = "convert_country"
    /\ cgpa_input' = c
    /\ conv' = convert_cgpa_to_countries(c, up)
    /\ shown' = "success: conversion"
    /\ results_dir' = script_top(results_dir)
    /\ NoSemesterRun
    /\ NoPlanRun
    /\ NoCgpaRun
    /\ UNCHANGED <<session_state, clock, REPORTLAB_AVAILABLE, writers, gradeVars>>

\* the server process is killed inside save_history while "Submit Rating"
\* appends: write_text opens history.json for writing, which empties it,
\* writes the new text and closes.  Killed before the open the file is the
\* old one, after the open it is empty, in the middle of the write it holds
\* the beginning of the new text, after the write it is the new one.  The
\* session dies with the process; the next one starts from the top.
KillDuringSave(rating, feedback, written) ==
    /\ app_started
    /\ Len(load_history(results_dir)) < MaxHistory
    /\ op' = "kill_during_save"
    /\ shown' = ""
    /\ LET dir0 == script_top(results_dir)
           entry == rating_entry(session_state, rating, feedback)
           new == save_history(dir0, Append(load_history(dir0), entry))
       IN  results_dir' =
               IF written = "old" THEN dir0
               ELSE IF written = "new" THEN new
               ELSE Put(dir0, HISTORY_FILE, OtherFile(written))
    /\ session_state' = EmptyMap
    /\ NoSemesterRun
    /\ NoPlanRun
    /\ NoCgpaRun
    /\ NoConvRun
    /\ UNCHANGED <<clock, REPORTLAB_AVAILABLE, writers, gradeVars>>

\* a second passes
Tick ==
    /\ clock < MaxClock
    /\ clock' = clock + 1
    /\ UNCHANGED <<op, shown, session_state, results_dir, REPORTLAB_AVAILABLE, writers,
                   gradeVars, sgpaVars, cgpaVars, planVars, convVars>>

Next ==
    \/ \E name \in NameInputs, ht \in HallticketInputs, prog \in ProgramInputs :
           Start(name, ht, prog)
    \/ \E sem \in SemInputs, form \in FormInputs, up \in BOOLEAN :
           ComputeSemester(sem, form, up)
    \/ \E plan \in PlanInputs, plan_rows \in PlanRowsInputs :
           CreatePlan(plan[1], plan[2], plan_rows)
    \/ \E rating \in RatingInputs, feedback \in FeedbackInputs :
           SubmitRating(rating, feedback)
    \/ \E f \in DeleteInputs(results_dir), ok \in BOOLEAN : DeleteFile(f, ok)
    \/ \E username \in {AUTO_ADMIN_USER, ""} : AdminLogin(username)
    \/ ResetHistory
    \/ \E sems \in TrackerInputs(session_state), up \in BOOLEAN : TrackCgpa(sems, up)
    \/ \E c \in ConvertPageInputs, up \in BOOLEAN : ConvertCountry(c, up)
    \/ \E rating \in RatingInputs, feedback \in FeedbackInputs,
          written \in WrittenInputs :
           KillDuringSave(rating, feedback, written)
    \/ Tick

Spec == Init /\ [][Next]_vars

\* the saved semesters of the session
SavedSemesters == Get(session_state, "semesters", EmptyMap)

\* C3: a "Compute Semester SGPA & Save" run whose subjects carry no credits
\* (the SGPA is undefined) leaves the ledger, the files of results/ and the
\* saved semesters of the session as they were: nothing is appended, no
\* sgpa/credits record is stored, no entry with sgpa 0 stands in for it.
C3_UndefinedSgpaNotPersisted ==
    [][(op' = "compute_semester" /\ GradedCredits' = 0) =>
           /\ load_history(results_dir') = load_history(results_dir)
           /\ results_dir' = results_dir
           /\ session_state' = session_state]_vars

\* the error shown for a form without credits, after an earlier semester was
\* saved and entered in the ledger
C3_Witness ==
    /\ op = "compute_semester"
    /\ df # <<>>
    /\ GradedCredits = 0
    /\ sgpa = None
    /\ shown = "error: could not compute SGPA"
    /\ load_history(results_dir) # <<>>
    /\ DOMAIN SavedSemesters # {}

IsPrefix(a, b) == Len(a) <= Len(b) /\ SubSeq(b, 1, Len(a)) = a

\* C10: whatever the application does other than the admin "Reset History",
\* the ledger read after the step has the ledger read before it as a prefix:
\* no entry is changed or removed.
C10_LedgerOnlyGrows ==
    [][op' # "reset_history" =>
           IsPrefix(load_history(results_dir), load_history(results_dir'))]_vars

\* history.json holds text that json.loads accepts
Readable(dir) == HISTORY_FILE \in DOMAIN dir /\ dir[HISTORY_FILE].text = "json"

\* the step is a run of the script with the button pressed, not the
\* passing of time
Ran(button) == op' = button /\ clock' = clock

\* the step ran an append to its end: a semester with a defined SGPA, a
\* planner run with a valid target, or a submitted rating
Appended ==
    \/ Ran("compute_semester") /\ sgpa' # None
    \/ Ran("create_plan") /\ needed' # None
    \/ Ran("submit_rating")

\* the entry is the one the step builds: stamped with the time of the step,
\* of the student of the session, and of the kind of the operation
EntryOfStep(e) ==
    /\ e.timestamp = now_ts
    /\ e.student = session_state["student_name"]
    /\ \/ op' = "compute_semester" /\ "semester" \in DOMAIN e /\ e.sgpa = sgpa'
       \/ op' = "create_plan" /\ "needed_in_see" \in DOMAIN e
                              /\ e.needed_in_see = needed'
       \/ op' = "submit_rating" /\ "feedback" \in DOMAIN e

\* C11: in one session with a readable ledger, a step that appends (semester
\* result, planner entry, app rating) makes the ledger read afterwards the
\* ledger read before followed by exactly the entry of that step: one longer,
\* the earlier entries unchanged and in order; a step that leaves results/
\* alone leaves what is read alone; after the admin reset the ledger read is
\* empty.
C11_AppendThenReadAll ==
    [][LET old == load_history(results_dir)
           new == load_history(results_dir')
       IN  /\ (Readable(results_dir) /\ Appended) =>
                  /\ Len(new) = Len(old) + 1
                  /\ IsPrefix(old, new)
                  /\ EntryOfStep(new[Len(new)])
                  /\ Readable(results_dir')
           /\ results_dir' = results_dir => new = old
           /\ Ran("reset_history") => new = <<>> /\ Readable(results_dir')]_vars

\* a rating appended behind a semester entry
C11_Witness ==
    /\ op = "submit_rating"
    /\ Len(load_history(results_dir)) = 2
    /\ "semester" \in DOMAIN load_history(results_dir)[1]
    /\ "feedback" \in DOMAIN load_history(results_dir)[2]

\* C12: while history.json holds text that is not the record list, no append
\* goes through: the stored text is left as it is, not replaced by a ledger
\* that starts again from the empty list.
C12_MalformedLedgerFatal ==
    [][(~ Readable(results_dir) /\ Appended) =>
           results_dir'[HISTORY_FILE] = results_dir[HISTORY_FILE]]_vars

\* C13: when the process is killed while save_history writes, history.json
\* afterwards holds either the complete old record list or the complete new
\* one.
C13_InterruptedSaveAtomic ==
    [][(Readable(results_dir) /\ Ran("kill_during_save")) =>
           LET old == load_history(results_dir)
               new == load_history(results_dir')
           IN  /\ Readable(results_dir')
               /\ \/ new = old
                  \/ Len(new) = Len(old) + 1 /\ IsPrefix(old, new)]_vars

\* the step ran a computation to its end or submitted a rating
Computed ==
    \/ Appended
    \/ Ran("track_cgpa") /\ cgpa' # None
    \/ Ran("convert_country") /\ conv' # EmptyMap

\* C14: every semester SGPA computation, CGPA computation, country
\* conversion and planner run that succeeds, and every rating submitted,
\* leaves the ledger one entry longer.
C14_EveryComputationAppended ==
    [][Computed =>
           Len(load_history(results_dir')) = Len(load_history(results_dir)) + 1]_vars

----------------------------------------------------------------------------
(* SpecSemester: the rows and the SGPA that "Compute Semester SGPA & Save" *)
(* computes from a form of one or two subjects.  The first subject takes   *)
(* every Mid1 and Mid2 of the widgets' range, presentation and SEE marks   *)
(* in steps, and 0, 3 (the default) or 10 credits; the second subject is   *)
(* the form's default.                                                     *)

MaxMid == 40

MaxPresentation == 10

MaxSee == 50

MaxSubjectCredits == 10

PresStep == 5

SeeStep == 5

MidInputs == 0 .. MaxMid

PresInputs == {p \in 0 .. MaxPresentation : p % PresStep = 0}

SeeInputs == {e \in 0 .. MaxSee : e % SeeStep = 0}

SubjectCreditInputs == {0, 3, MaxSubjectCredits}

\* the widgets of subject i as first rendered
DefaultSubject(i) ==
    [Subject |-> "Subject_" \o ToString(i), Credits |-> 3, Mid1_out_of_40 |-> 20,
     Mid2_out_of_40 |-> 20, Presentation_out_of_10 |-> 5, SEE_out_of_50 |-> 25]

FirstSubjectInputs ==
    [Subject : {"Subject_1"}, Credits : SubjectCreditInputs,
     Mid1_out_of_40 : MidInputs, Mid2_out_of_40 : MidInputs,
     Presentation_out_of_10 : PresInputs, SEE_out_of_50 : SeeInputs]

MaxFormSubjects == 2

\* the form of n subjects whose first subject is s
SemesterForm(s, n) ==
    [i \in 1 .. n |-> IF i = 1 THEN s ELSE DefaultSubject(i)]

InitSemester ==
    /\ op = "init"
    /\ \E s \in FirstSubjectInputs, n \in 1 .. MaxFormSubjects :
           subjects = SemesterForm(s, n)
    /\ df = <<>>
    /\ sgpa = None
    /\ shown = ""
    /\ IdleGrade
    /\ IdleCgpa
    /\ IdlePlan
    /\ IdleConv
    /\ IdleApp

\* the loop over subjects, then sgpa_from_df(sem_df)
ComputeRows(up) ==
    /\ op = "init"
    /\ op' = "semester_rows"
    /\ df' = semester_rows(subjects, up)
    /\ sgpa' = sgpa_from_df(df', up)
    /\ shown' = IF sgpa' = None THEN "error: could not compute SGPA"
                ELSE "success: semester SGPA"
    /\ UNCHANGED <<subjects, gradeVars, cgpaVars, planVars, convVars, appVars>>

NextSemester == \E up \in BOOLEAN : ComputeRows(up)

SpecSemester == InitSemester /\ [][NextSemester]_vars

DefinedGradePoints == {g * Unit : g \in {0, 4, 5, 6, 7, 8, 9, 10}}

\* C16: for every subject of a form whose marks are within the widgets'
\* ranges, the row computed has CIE = (Mid1 + Mid2) / 2 + presentation in
\* [0, 50], a total = CIE + SEE in [0, 100] that is a multiple of 0.5, a
\* non-empty grade label and a grade point of {0, 4, 5, 6, 7, 8, 9, 10}; so
\* every row counts toward the SGPA, which is undefined exactly when the
\* form carries no credits and lies in [0, 10] otherwise.
C16_InRangeSubjectsGraded ==
    op = "semester_rows" =>
        /\ DOMAIN df = DOMAIN subjects
        /\ \A i \in DOMAIN df :
               LET s == subjects[i]
                   r == df[i]
               IN  /\ 2 * r.CIE_out_of_50 =
                          (s.Mid1_out_of_40 + s.Mid2_out_of_40
                              + 2 * s.Presentation_out_of_10) * Unit
                   /\ r.CIE_out_of_50 \in 0 .. 50 * Unit
                   /\ r.Total_out_of_100 = r.CIE_out_of_50 + s.SEE_out_of_50 * Unit
                   /\ r.Total_out_of_100 \in 0 .. 100 * Unit
                   /\ r.Total_out_of_100 % (Unit \div 2) = 0
                   /\ r.Grade # ""
                   /\ r.Grade_Point \in DefinedGradePoints
        /\ GradedRows = DOMAIN df
        /\ sgpa = None <=> GradedCredits = 0
        /\ sgpa # None => sgpa \in 0 .. 10 * Unit

\* a subject with total 89.5, just under the O band, next to the default
\* subject (total 50): grades A+ and B, SGPA 7.5
C16_Witness ==
    /\ op = "semester_rows"
    /\ Len(df) = 2
    /\ df[1].Total_out_of_100 = 89 * Unit + Unit \div 2
    /\ df[1].Grade = "A+"
    /\ df[2].Grade = "B"
    /\ sgpa = 7 * Unit + Unit \div 2

----------------------------------------------------------------------------
(* SpecLedger: MaxWriters browser sessions of one server, each inside the  *)
(* append of "Submit Rating".  Every session runs the script in a thread   *)
(* of its own, so the load_history and the save_history of one append are  *)
(* two steps between which the other sessions may run.  writers[w] holds   *)
(* the position of session w (pc), the entry it built and the list hist it *)
(* loaded.                                                                 *)

MaxWriters == 2

Writers == 1 .. MaxWriters

\* the ledger before the appends: empty, or one planner entry of an
\* earlier session
SeedLedgers ==
    {<<>>,
     <<[timestamp |-> "0", student |-> "Asha", hallticket |-> "25EU08R0111",
        program |-> "B.Tech", action |-> "planner", target_gp |-> 5 * Unit,
        needed_in_see |-> 0, plan_items |-> EmptyMap, rating |-> 4]>>}

\* the slider of the rating form
SliderInputs == 1 .. 5

\* st.session_state of session w after Start
writer_session(w) ==
    [student_name |-> "Student_" \o ToString(w),
     hallticket |-> "HT_" \o ToString(w),
     program |-> "B.Tech"]

InitLedger ==
    /\ op = "init"
    /\ shown = ""
    /\ session_state = EmptyMap
    /\ \E seed \in SeedLedgers : results_dir = save_history(EmptyMap, seed)
    /\ clock = 0
    /\ REPORTLAB_AVAILABLE = FALSE
    /\ \E ratings \in [Writers -> SliderInputs] :
           writers = [w \in Writers |->
                         [pc |-> "entry",
                          entry |-> rating_entry(writer_session(w), ratings[w], ""),
                          hist |-> <<>>]]
    /\ IdleGrade
    /\ IdleSgpa
    /\ IdleCgpa
    /\ IdlePlan
    /\ IdleConv

\* hist = load_history()
LoadHistory(w) ==
    /\ writers[w].pc = "entry"
    /\ op' = "load_history"
    /\ writers' = [writers EXCEPT ![w].pc = "loaded",
                                  ![w].hist = load_history(results_dir)]
    /\ UNCHANGED <<shown, session_state, results_dir, clock, REPORTLAB_AVAILABLE,
                   gradeVars, sgpaVars, cgpaVars, planVars, convVars>>

\* hist.append(entry); save_history(hist)
SaveHistory(w) ==
    /\ writers[w].pc = "loaded"
    /\ op' = "save_history"
    /\ results_dir' =
           save_history(results_dir, Append(writers[w].hist, writers[w].entry))
    /\ writers' = [writers EXCEPT ![w].pc = "saved"]
    /\ UNCHANGED <<shown, session_state, clock, REPORTLAB_AVAILABLE,
                   gradeVars, sgpaVars, cgpaVars, planVars, convVars>>

NextLedger ==
    \/ \E w \in Writers : LoadHistory(w)
    \/ \E w \in Writers : SaveHistory(w)

SpecLedger == InitLedger /\ [][NextLedger]_vars

\* every session has finished its append
AllSaved == \A w \in DOMAIN writers : writers[w].pc = "saved"

\* the entry of session w is in the ledger
InLedger(w) ==
    \E i \in DOMAIN load_history(results_dir) :
        load_history(results_dir)[i] = writers[w].entry

\* C15: nothing excludes two sessions from each other inside an append.
\* When two sessions have loaded the same list (both ran load_history before
\* either ran save_history) and both have saved, the ledger does not hold
\* both new entries: the save that came second replaced the list of the
\* first, and a completed append is lost.  Sessions that loaded different
\* lists (one append after the other) leave both entries.
C15_InterleavedAppendLost ==
    AllSaved =>
        /\ \E w \in DOMAIN writers : InLedger(w)
        /\ \A v, w \in DOMAIN writers :
               v # w =>
                   /\ writers[v].hist = writers[w].hist =>
                          ~ (InLedger(v) /\ InLedger(w))
                   /\ (DOMAIN writers = {v, w} /\ writers[v].hist # writers[w].hist) =>
                          InLedger(v) /\ InLedger(w)

\* both sessions loaded the seeded ledger, session 1 saved, then session 2:
\* the ledger holds the seed and the rating of session 2 only
C15_Witness ==
    /\ AllSaved
    /\ writers[1].hist = writers[2].hist
    /\ Len(writers[1].hist) = 1
    /\ Len(load_history(results_dir)) = 2
    /\ InLedger(2)
    /\ ~ InLedger(1)

====
